---- MODULE Spec2Model ----
(***************************************************************************)
(* Model of qif_generator: Account, Split and Transaction values, their    *)
(* consuming builder methods, Transaction::build's amount/split-sum check, *)
(* AccountType::from_str and the Display implementations.                  *)
(*                                                                         *)
(* Text is modelled as a sequence of one-character strings, so that the    *)
(* slicing done by the amount formatter is computed, not assumed.          *)
(***************************************************************************)
EXTENDS Integers, Sequences, FiniteSets

(***************************************************************************)
(* Bounds of the model.                                                    *)
(***************************************************************************)
\* Longest split sequence a builder may hold, and longest list given to splits().
MaxSplits == 2
\* Longest input string enumerated over Alphabet for AccountType::from_str.
MaxInputLen == 4

(***************************************************************************)
(* Text helpers.                                                           *)
(***************************************************************************)
NL == "\n"

DigitChar(d) ==
  CASE d = 0 -> "0" [] d = 1 -> "1" [] d = 2 -> "2" [] d = 3 -> "3"
    [] d = 4 -> "4" [] d = 5 -> "5" [] d = 6 -> "6" [] d = 7 -> "7"
    [] d = 8 -> "8" [] d = 9 -> "9"

Abs(v) == IF v < 0 THEN -v ELSE v

\* Decimal digits of a natural number, most significant first ("0" for 0).
RECURSIVE Digits(_)
Digits(n) == IF n < 10 THEN <<DigitChar(n)>>
             ELSE Digits(n \div 10) \o <<DigitChar(n % 10)>>

RECURSIVE Zeros(_)
Zeros(k) == IF k <= 0 THEN <<>> ELSE <<"0">> \o Zeros(k - 1)

\* Rust's {:0w} for an integer: sign-aware zero padding; the minimum width w
\* counts the sign, and the zeros go between the sign and the digits.
FormatZeroPad(v, w) ==
  LET sign == IF v < 0 THEN <<"-">> ELSE <<>>
      digs == Digits(Abs(v))
  IN  sign \o Zeros(w - Len(sign) - Len(digs)) \o digs

\* s[from..] and s[..to] of Rust, on a sequence (0-based byte offsets).
SliceTo(s, to) == SubSeq(s, 1, to)
SliceFrom(s, from) == SubSeq(s, from + 1, Len(s))

(***************************************************************************)
(* account.rs                                                              *)
(***************************************************************************)
AccountType ==
  {"Bank", "Cash", "CreditCard", "Investment", "AssetAccount", "LiabilityAccount"}

ParseAccountTypeErr == "ParseAccountTypeErr"

\* The six strings matched by from_str, as text.
NameBank == <<"B","a","n","k">>
NameCash == <<"C","a","s","h">>
NameCreditCard == <<"C","r","e","d","i","t","C","a","r","d">>
NameInvestment == <<"I","n","v","e","s","t","m","e","n","t">>
NameAssetAccount == <<"A","s","s","e","t","A","c","c","o","u","n","t">>
NameLiabilityAccount ==
  <<"L","i","a","b","i","l","i","t","y","A","c","c","o","u","n","t">>

\* A from_str that also takes the display tag of CreditCard.
AccountType_from_str_tag(input) ==
  CASE input = NameBank -> [ok |-> TRUE, val |-> "Bank"]
    [] input = NameCash -> [ok |-> TRUE, val |-> "Cash"]
    [] input = NameCreditCard -> [ok |-> TRUE, val |-> "CreditCard"]
    [] input = <<"C","C","a","r","d">> -> [ok |-> TRUE, val |-> "CreditCard"]
    [] input = NameInvestment -> [ok |-> TRUE, val |-> "Investment"]
    [] input = NameAssetAccount -> [ok |-> TRUE, val |-> "AssetAccount"]
    [] input = NameLiabilityAccount -> [ok |-> TRUE, val |-> "LiabilityAccount"]
    [] OTHER -> [ok |-> FALSE, val |-> ParseAccountTypeErr]

\* impl FromStr for AccountType: Ok(variant) or Err(ParseAccountTypeErr).
AccountType_from_str(input) ==
  CASE input = NameBank -> [ok |-> TRUE, val |-> "Bank"]
    [] input = NameCash -> [ok |-> TRUE, val |-> "Cash"]
    [] input = NameCreditCard -> [ok |-> TRUE, val |-> "CreditCard"]
    [] input = NameInvestment -> [ok |-> TRUE, val |-> "Investment"]
    [] input = NameAssetAccount -> [ok |-> TRUE, val |-> "AssetAccount"]
    [] input = NameLiabilityAccount -> [ok |-> TRUE, val |-> "LiabilityAccount"]
    [] OTHER -> [ok |-> FALSE, val |-> ParseAccountTypeErr]

AccountType_default == "Bank"

\* A Display that writes the variant's own name for the two Oth tags.
AccountType_fmt_names(self) ==
  CASE self = "Bank" -> <<"B","a","n","k">>
    [] self = "Cash" -> <<"C","a","s","h">>
    [] self = "CreditCard" -> <<"C","C","a","r","d">>
    [] self = "Investment" -> <<"I","n","v","s","t">>
    [] self = "AssetAccount" -> NameAssetAccount
    [] self = "LiabilityAccount" -> NameLiabilityAccount

\* impl fmt::Display for AccountType.
AccountType_fmt(self) ==
  CASE self = "Bank" -> <<"B","a","n","k">>
    [] self = "Cash" -> <<"C","a","s","h">>
    [] self = "CreditCard" -> <<"C","C","a","r","d">>
    [] self = "Investment" -> <<"I","n","v","s","t">>
    [] self = "AssetAccount" -> <<"O","t","h"," ","A">>
    [] self = "LiabilityAccount" -> <<"O","t","h"," ","L">>

Account_new == [name |-> <<>>, account_type |-> AccountType_default,
                description |-> <<>>]
Account_name(self, val) == [self EXCEPT !.name = val]
Account_description(self, val) == [self EXCEPT !.description = val]
Account_account_type(self, val) == [self EXCEPT !.account_type = val]
Account_get_type(self) == self.account_type
Account_build(self) == [name |-> self.name, description |-> self.description,
                        account_type |-> self.account_type]

\* impl fmt::Display for Account: "!Account\nN{0}\nT{1}\n^" and a newline.
Account_fmt(self) ==
  <<"!","A","c","c","o","u","n","t", NL, "N">> \o self.name
    \o <<NL, "T">> \o AccountType_fmt(self.account_type)
    \o <<NL, "^", NL>>

(***************************************************************************)
(* split.rs                                                                *)
(***************************************************************************)
Split_new == [category |-> <<>>, memo |-> <<>>, amount |-> 0]
Split_category(self, val) == [self EXCEPT !.category = val]
Split_memo(self, val) == [self EXCEPT !.memo = val]
Split_amount(self, val) == [self EXCEPT !.amount = val]
Split_build(self) == [category |-> self.category, memo |-> self.memo,
                      amount |-> self.amount]

\* impl fmt::Display for Split: format!("{0:03}", amount), cut two bytes from
\* the end, then "S{0}\nE{1}\n${2}.{3}" and a newline.
Split_fmt(self) ==
  LET amount_line == FormatZeroPad(self.amount, 3)
  IN  <<"S">> \o self.category \o <<NL, "E">> \o self.memo \o <<NL, "$">>
        \o SliceTo(amount_line, Len(amount_line) - 2) \o <<".">>
        \o SliceFrom(amount_line, Len(amount_line) - 2) \o <<NL>>

(***************************************************************************)
(* transaction.rs                                                          *)
(***************************************************************************)
\* fold(0, |acc, e| acc + e.amount) over a slice of splits.
\* The additions are i64 additions; the amounts explored stay far from the
\* i64 limits, so no addition overflows and the sum is the mathematical one.
RECURSIVE SumAmounts(_)
SumAmounts(val) ==
  IF val = <<>> THEN 0
  ELSE SumAmounts(SubSeq(val, 1, Len(val) - 1)) + val[Len(val)].amount

\* chrono's format("%m/%d/%Y") of a date: two, two and four digits.
Date_format(d) ==
  FormatZeroPad(d.month, 2) \o <<"/">> \o FormatZeroPad(d.day, 2)
    \o <<"/">> \o FormatZeroPad(d.year, 4)

Transaction_new(acc, now) ==
  [account |-> acc, date |-> now, amount |-> 0, payee |-> <<>>, memo |-> <<>>,
   category |-> <<>>, cleared_status |-> <<>>, splits |-> <<>>]

Transaction_date(self, val) == [self EXCEPT !.date = val]
Transaction_amount(self, val) == [self EXCEPT !.amount = val]
Transaction_payee(self, val) == [self EXCEPT !.payee = val]
Transaction_memo(self, val) == [self EXCEPT !.memo = val]
Transaction_category(self, val) == [self EXCEPT !.category = val]
Transaction_cleared_status(self, val) == [self EXCEPT !.cleared_status = val]

\* A splits() that replaces the list and leaves the amount as it was.
Transaction_splits_stale(self, val) == [self EXCEPT !.splits = val]

Transaction_splits(self, val) ==
  LET sum == SumAmounts(val)
  IN  [self EXCEPT !.amount = sum, !.splits = val]

\* A check that is skipped when there are no splits.
Transaction_build_fails_nonempty(self) ==
  self.splits # <<>> /\ SumAmounts(self.splits) # self.amount

\* Whether build takes its Err branch.
Transaction_build_fails(self) == SumAmounts(self.splits) # self.amount

Transaction_build(self) ==
  IF Transaction_build_fails(self)
  THEN [ok |-> FALSE, val |-> self]
  ELSE [ok |-> TRUE,
        val |-> [account |-> self.account, date |-> self.date,
                 amount |-> self.amount, payee |-> self.payee,
                 memo |-> self.memo, category |-> self.category,
                 cleared_status |-> self.cleared_status,
                 splits |-> self.splits]]

\* A with_split that pushes the split and does not add its amount.
Transaction_with_split_push_only(self, val) ==
  [self EXCEPT !.splits = Append(self.splits, val)]

\* A with_split that assigns the split's amount instead of adding it.
Transaction_with_split_assign(self, val) ==
  [self EXCEPT !.amount = val.amount,
               !.splits = Append(self.splits, val)]

\* A with_split that puts the split first.
Transaction_with_split_front(self, val) ==
  [self EXCEPT !.amount = self.amount + val.amount,
               !.splits = <<val>> \o self.splits]

Transaction_with_split(self, val) ==
  [self EXCEPT !.amount = self.amount + val.amount,
               !.splits = Append(self.splits, val)]

Transaction_sum(self) == self.amount

\* The splits written last first.
RECURSIVE SplitsText_reversed(_)
SplitsText_reversed(splits) ==
  IF splits = <<>> THEN <<>>
  ELSE SplitsText_reversed(Tail(splits)) \o Split_fmt(Head(splits))

\* The text written for the splits, in iteration order.
RECURSIVE SplitsText(_)
SplitsText(splits) ==
  IF splits = <<>> THEN <<>>
  ELSE Split_fmt(Head(splits)) \o SplitsText(Tail(splits))

\* impl fmt::Display for Transaction.
Transaction_fmt(self) ==
  LET amount_line == FormatZeroPad(self.amount, 3)
  IN  <<"!","T","y","p","e",":">> \o AccountType_fmt(Account_get_type(self.account))
        \o <<NL, "D">> \o Date_format(self.date)
        \o <<NL, "P">> \o self.payee
        \o <<NL, "M">> \o self.memo
        \o <<NL, "L">> \o self.category
        \o <<NL, "C">> \o self.cleared_status
        \o <<NL, "T">> \o SliceTo(amount_line, Len(amount_line) - 2) \o <<".">>
        \o SliceFrom(amount_line, Len(amount_line) - 2) \o <<NL>>
        \o (IF self.splits # <<>> THEN SplitsText(self.splits) ELSE <<>>)
        \o <<"^", NL>>

(***************************************************************************)
(* Inputs of the operations.                                               *)
(***************************************************************************)
TxtTestAcc == <<"T","e","s","t","A","c","c">>
TxtTest == <<"T","e","s","t">>
TxtTestcat == <<"t","e","s","t","c","a","t">>
TxtTestmemo == <<"t","e","s","t","m","e","m","o">>
TxtCat1 == <<"C","a","t","1">>
TxtCat2 == <<"C","a","t","2">>
TxtSplit1 == <<"S","p","l","i","t","1">>
TxtSplit2 == <<"S","p","l","i","t","2">>

\* Inputs of the Account builder.
AccountNames == { TxtTestAcc }
AccountDescriptions == { TxtTest }

\* The accounts of the tests in transaction.rs, as their builder chain makes
\* them: the Transaction operations are explored over these.
Accounts ==
  { Account_account_type(Account_new, ty) : ty \in {"Cash", "Investment"} }

Dates == { [year |-> 2020, month |-> 11, day |-> 28] }

\* Splits as the builder chain makes them: the two of the tests and one whose
\* magnitude is below one hundred minor units.
SplitVals ==
  { Split_build(Split_amount(Split_memo(Split_category(Split_new, TxtCat1), TxtSplit1), -1000)),
    Split_build(Split_amount(Split_memo(Split_category(Split_new, TxtCat2), TxtSplit2), -2000)),
    Split_build(Split_amount(Split_new, -5)) }

AmountVals == {0, 5, -3000}
PayeeVals == { <<"p">> }
MemoVals == { TxtTestmemo }
CategoryVals == { TxtTestcat }
ClearedVals == { <<"X">> }

SeqsUpTo(S, n) == UNION { [1..k -> S] : k \in 0..n }
SplitLists == SeqsUpTo(SplitVals, MaxSplits)

(***************************************************************************)
(* State.                                                                  *)
(***************************************************************************)
VARIABLES
  acc,      \* the Account value the caller holds
  t,        \* the Transaction value the caller holds
  live,     \* a Transaction value is held (none after build returned Err)
  built,    \* the value held came out of a build that returned Ok
  writer,   \* what last assigned t.amount: "new", "amount" or "splits"
  added,    \* the splits given to with_split since new or splits()
  lastOp,   \* the last operation, its argument and what it returned
  out,      \* the text returned when the last operation was a to_string
  input,    \* the string last given to AccountType::from_str
  parsed    \* what from_str returned for it

vars == <<acc, t, live, built, writer, added, lastOp, out, input, parsed>>

Op(name, val, list, ret) == [op |-> name, val |-> val, list |-> list, ret |-> ret]

NoInput == <<"?">>
NoParse == [ok |-> FALSE, val |-> "none"]

InitTx ==
  /\ acc \in Accounts
  /\ \E now \in Dates : t = Transaction_new(acc, now)
  /\ live = TRUE
  /\ built = FALSE
  /\ writer = "new"
  /\ added = <<>>
  /\ lastOp = Op("new", 0, <<>>, "Self")
  /\ out = <<>>

Init ==
  /\ InitTx
  /\ input = NoInput
  /\ parsed = NoParse

(***************************************************************************)
(* Operations on the Transaction value.                                    *)
(***************************************************************************)
New ==
  /\ \E now \in Dates : t' = Transaction_new(acc, now)
  /\ live' = TRUE
  /\ built' = FALSE
  /\ writer' = "new"
  /\ added' = <<>>
  /\ lastOp' = Op("new", 0, <<>>, "Self")
  /\ out' = <<>>
  /\ UNCHANGED <<acc, input, parsed>>

\* A setter that leaves amount and splits alone.
Plain(name, next) ==
  /\ live
  /\ t' = next
  /\ lastOp' = Op(name, 0, <<>>, "Self")
  /\ out' = <<>>
  /\ UNCHANGED <<acc, live, built, writer, added, input, parsed>>

Date == \E val \in Dates : Plain("date", Transaction_date(t, val))
Payee == \E val \in PayeeVals : Plain("payee", Transaction_payee(t, val))
Memo == \E val \in MemoVals : Plain("memo", Transaction_memo(t, val))
Category == \E val \in CategoryVals : Plain("category", Transaction_category(t, val))
ClearedStatus ==
  \E val \in ClearedVals : Plain("cleared_status", Transaction_cleared_status(t, val))

Amount ==
  \E val \in AmountVals :
    /\ live
    /\ t' = Transaction_amount(t, val)
    /\ writer' = "amount"
    /\ lastOp' = Op("amount", val, <<>>, "Self")
    /\ out' = <<>>
    /\ UNCHANGED <<acc, live, built, added, input, parsed>>

Splits ==
  \E val \in SplitLists :
    /\ live
    /\ t' = Transaction_splits(t, val)
    /\ writer' = "splits"
    /\ added' = <<>>
    /\ lastOp' = Op("splits", 0, val, "Self")
    /\ out' = <<>>
    /\ UNCHANGED <<acc, live, built, input, parsed>>

WithSplit ==
  \E val \in SplitVals :
    /\ live
    /\ Len(t.splits) < MaxSplits
    /\ t' = Transaction_with_split(t, val)
    /\ added' = Append(added, val)
    /\ lastOp' = Op("with_split", 0, <<val>>, "Self")
    /\ out' = <<>>
    /\ UNCHANGED <<acc, live, built, writer, input, parsed>>

Build ==
  /\ live
  /\ LET r == Transaction_build(t)
     IN  /\ t' = r.val
         /\ live' = r.ok
         /\ built' = r.ok
         /\ lastOp' = Op("build", 0, <<>>, IF r.ok THEN "Ok" ELSE "Err")
  /\ out' = <<>>
  /\ UNCHANGED <<acc, writer, added, input, parsed>>

Sum ==
  /\ live
  /\ lastOp' = Op("sum", Transaction_sum(t), <<>>, "i64")
  /\ out' = <<>>
  /\ UNCHANGED <<acc, t, live, built, writer, added, input, parsed>>

TransactionToString ==
  /\ live
  /\ out' = Transaction_fmt(t)
  /\ lastOp' = Op("to_string", 0, <<>>, "String")
  /\ UNCHANGED <<acc, t, live, built, writer, added, input, parsed>>

Next ==
  \/ New
  \/ Date
  \/ Payee
  \/ Memo
  \/ Category
  \/ ClearedStatus
  \/ Amount
  \/ Splits
  \/ WithSplit
  \/ Build
  \/ Sum
  \/ TransactionToString

Spec == Init /\ [][Next]_vars

(***************************************************************************)
(* The Account builder, and the records written for an account type.       *)
(* A Transaction borrows the Account, so the consuming Account methods     *)
(* apply only while no Transaction is held.                                *)
(***************************************************************************)
AccountOp(name, next) ==
  /\ ~live
  /\ acc' = next
  /\ lastOp' = Op(name, 0, <<>>, "Self")
  /\ out' = <<>>
  /\ UNCHANGED <<t, live, built, writer, added, input, parsed>>

AccountNew == AccountOp("Account::new", Account_new)
AccountName == \E val \in AccountNames : AccountOp("name", Account_name(acc, val))
AccountDescription ==
  \E val \in AccountDescriptions :
    AccountOp("description", Account_description(acc, val))
AccountAccountType ==
  \E val \in AccountType : AccountOp("account_type", Account_account_type(acc, val))
AccountBuild == AccountOp("Account::build", Account_build(acc))

AccountToString ==
  /\ out' = Account_fmt(acc)
  /\ lastOp' = Op("account_to_string", 0, <<>>, "String")
  /\ UNCHANGED <<acc, t, live, built, writer, added, input, parsed>>

InitAccount ==
  /\ acc = Account_new
  /\ \E now \in Dates : t = Transaction_new(acc, now)
  /\ live = FALSE
  /\ built = FALSE
  /\ writer = "new"
  /\ added = <<>>
  /\ lastOp = Op("Account::new", 0, <<>>, "Self")
  /\ out = <<>>
  /\ input = NoInput
  /\ parsed = NoParse

NextAccount ==
  \/ AccountNew
  \/ AccountName
  \/ AccountDescription
  \/ AccountAccountType
  \/ AccountBuild
  \/ AccountToString
  \/ New
  \/ Memo
  \/ Category
  \/ TransactionToString

SpecAccount == InitAccount /\ [][NextAccount]_vars

(***************************************************************************)
(* AccountType::from_str applied to input strings.                         *)
(***************************************************************************)
Alphabet == {"B", "a", "n", "k", "C", "s", "h", "b"}

\* Strings given by name: the long-form names, the display tags, case
\* variants, names with a blank around them, and unrelated text.
NamedInputs ==
  { NameBank, NameCash, NameCreditCard, NameInvestment, NameAssetAccount,
    NameLiabilityAccount,
    <<"C","C","a","r","d">>, <<"I","n","v","s","t">>,
    <<"O","t","h"," ","A">>, <<"O","t","h"," ","L">>,
    <<"b","a","n","k">>, <<"B","A","N","K">>, <<"c","a","s","h">>,
    <<"C","A","S","H">>,
    <<"c","r","e","d","i","t","c","a","r","d">>,
    <<"C","r","e","d","i","t","c","a","r","d">>,
    <<"C","r","e","d","i","t"," ","C","a","r","d">>,
    <<"i","n","v","e","s","t","m","e","n","t">>,
    <<"I","N","V","E","S","T","M","E","N","T">>,
    <<"a","s","s","e","t","a","c","c","o","u","n","t">>,
    <<"A","s","s","e","t">>, <<"A","c","c","o","u","n","t">>,
    <<"l","i","a","b","i","l","i","t","y","a","c","c","o","u","n","t">>,
    <<"L","i","a","b","i","l","i","t","y">>,
    <<"B","a","n","k"," ">>, <<" ","B","a","n","k">>, <<"C","a","s","h",NL>>,
    <<"a","s","d","f">>, <<>> }

ParseInputs == NamedInputs \cup SeqsUpTo(Alphabet, MaxInputLen)

\* One call of from_str on the string drawn by InitParse.
FromStr ==
  /\ parsed = NoParse
  /\ parsed' = AccountType_from_str(input)
  /\ UNCHANGED <<input, acc, t, live, built, writer, added, lastOp, out>>

InitParse ==
  /\ InitTx
  /\ input \in ParseInputs
  /\ parsed = NoParse

NextParse == FromStr

SpecParse == InitParse /\ [][NextParse]_vars

(***************************************************************************)
(* Definitions used to state the properties.                               *)
(***************************************************************************)
S1 == [category |-> TxtCat1, memo |-> TxtSplit1, amount |-> -1000]
S2 == [category |-> TxtCat2, memo |-> TxtSplit2, amount |-> -2000]

\* The mathematical sum of the amounts of a sequence of splits.
RECURSIVE SplitTotal(_)
SplitTotal(list) ==
  IF list = <<>> THEN 0 ELSE Head(list).amount + SplitTotal(Tail(list))

\* The lines of a text: the pieces ended by a newline, and what follows the
\* last newline when it is not empty.
RECURSIVE LinesFrom(_, _, _)
LinesFrom(s, i, cur) ==
  IF i > Len(s) THEN (IF cur = <<>> THEN <<>> ELSE <<cur>>)
  ELSE IF s[i] = NL THEN <<cur>> \o LinesFrom(s, i + 1, <<>>)
  ELSE LinesFrom(s, i + 1, Append(cur, s[i]))

Lines(s) == LinesFrom(s, 1, <<>>)

StartsWith(s, prefix) ==
  Len(s) >= Len(prefix) /\ SubSeq(s, 1, Len(prefix)) = prefix

DigitOf(c) ==
  CASE c = "0" -> 0 [] c = "1" -> 1 [] c = "2" -> 2 [] c = "3" -> 3
    [] c = "4" -> 4 [] c = "5" -> 5 [] c = "6" -> 6 [] c = "7" -> 7
    [] c = "8" -> 8 [] c = "9" -> 9

\* The count of minor units an amount text stands for: its digits read as
\* one number, negated under a leading '-'.
RECURSIVE DigitsValue(_, _)
DigitsValue(txt, sofar) ==
  IF txt = <<>> THEN sofar
  ELSE IF Head(txt) \in {"-", "."} THEN DigitsValue(Tail(txt), sofar)
  ELSE DigitsValue(Tail(txt), 10 * sofar + DigitOf(Head(txt)))

AmountValue(txt) ==
  IF txt # <<>> /\ Head(txt) = "-" THEN -DigitsValue(txt, 0)
  ELSE DigitsValue(txt, 0)

\* The amount text the format asks for: sign, integer part with at least one
\* digit, '.', two fraction digits.
ExpectedAmountText(v) ==
  (IF v < 0 THEN <<"-">> ELSE <<>>) \o Digits(Abs(v) \div 100) \o <<".">>
    \o <<DigitChar((Abs(v) % 100) \div 10), DigitChar(Abs(v) % 10)>>

\* The display tag of each account type.
ExpectedTag(ty) ==
  CASE ty = "Bank" -> <<"B","a","n","k">>
    [] ty = "Cash" -> <<"C","a","s","h">>
    [] ty = "CreditCard" -> <<"C","C","a","r","d">>
    [] ty = "Investment" -> <<"I","n","v","s","t">>
    [] ty = "AssetAccount" -> <<"O","t","h"," ","A">>
    [] ty = "LiabilityAccount" -> <<"O","t","h"," ","L">>

(***************************************************************************)
(* C1: build returns Err exactly when the pending amount differs from the  *)
(* sum of the pending splits; otherwise it returns Ok with a Transaction   *)
(* that has the pending amount and splits, so that its amount equals the   *)
(* sum of its splits.                                                      *)
(***************************************************************************)
C1_BuildChecksExactSum ==
  [][ lastOp'.op = "build" =>
        /\ lastOp'.ret \in {"Ok", "Err"}
        /\ (lastOp'.ret = "Err") <=> (t.amount # SplitTotal(t.splits))
        /\ lastOp'.ret = "Err" => ~live'
        /\ lastOp'.ret = "Ok" =>
             /\ live'
             /\ Transaction_sum(t') = t.amount
             /\ t'.splits = t.splits
             /\ t'.amount = SplitTotal(t'.splits) ]_vars

\* A build that returned Err on two splits after amount() was called.
C1_Witness ==
  /\ lastOp.op = "build"
  /\ lastOp.ret = "Err"
  /\ Len(t.splits) = 2
  /\ writer = "amount"

(***************************************************************************)
(* C2 (as claimed): with no splits attached, build accepts the amount      *)
(* verbatim: it returns Ok whatever the amount is.                         *)
(***************************************************************************)
C2_EmptySplitsAcceptAnyAmount ==
  (lastOp.op = "build" /\ t.splits = <<>>) => lastOp.ret = "Ok"

(***************************************************************************)
(* C3 (as claimed): the amount text on the T line and on every $ line is   *)
(* an optional '-', the digits of |v| div 100 (at least one), '.', and two *)
(* digits of |v| mod 100.                                                  *)
(***************************************************************************)
C3_AmountTextAsClaimed ==
  lastOp.op = "to_string" =>
    LET L == Lines(out)
    IN  /\ L[7] = <<"T">> \o ExpectedAmountText(t.amount)
        /\ \A i \in 1..Len(t.splits) :
             L[7 + 3 * i] = <<"$">> \o ExpectedAmountText(t.splits[i].amount)

(***************************************************************************)
(* C4: when amount() is never called, a build after any with_split calls   *)
(* and other setters returns Ok, and sum() is the sum of the amounts of    *)
(* the splits added (which are the pending splits, in order).              *)
(***************************************************************************)
C4_WithSplitOnlyBuilds ==
  /\ (lastOp.op = "build" /\ writer # "amount") =>
       /\ lastOp.ret = "Ok"
       /\ Transaction_sum(t) = SplitTotal(t.splits)
  /\ (lastOp.op = "build" /\ writer = "new") =>
       /\ t.splits = added
       /\ Transaction_sum(t) = SplitTotal(added)
  /\ (lastOp.op = "sum" /\ writer = "new") => lastOp.val = SplitTotal(added)

\* The builder of split_transaction_format, built.
C4_Witness ==
  /\ lastOp.op = "build"
  /\ lastOp.ret = "Ok"
  /\ writer = "new"
  /\ added = <<S1, S2>>
  /\ Transaction_sum(t) = -3000
  /\ t.memo = TxtTestmemo
  /\ t.category = TxtTestcat

(***************************************************************************)
(* C5: right after splits(list) the pending splits are list and the        *)
(* pending amount is the sum of list, whatever came before; a build with   *)
(* no amount() call since then returns Ok.                                 *)
(***************************************************************************)
C5_SplitsReplacesAll ==
  /\ lastOp.op = "splits" =>
       /\ t.splits = lastOp.list
       /\ t.amount = SplitTotal(lastOp.list)
  /\ (lastOp.op = "build" /\ writer = "splits") => lastOp.ret = "Ok"

\* splits([s2, s1]) applied to a value that had already been built.
C5_Witness ==
  /\ lastOp.op = "splits"
  /\ lastOp.list = <<S2, S1>>
  /\ built

(***************************************************************************)
(* C6 (as claimed): a Transaction obtained from one that build returned    *)
(* Ok for, when rendered, still has amount equal to the sum of its splits. *)
(***************************************************************************)
C6_FinalizedStaysConsistent ==
  (built /\ lastOp.op = "to_string") => t.amount = SplitTotal(t.splits)

(***************************************************************************)
(* C7: the rendered Transaction is the !Type, D, P, M, L, C lines, one T   *)
(* line carrying the whole amount, an S/E/$ triple per split in insertion  *)
(* order, and a last line holding only ^; the L line is always there.      *)
(***************************************************************************)
C7_RenderOrder ==
  lastOp.op = "to_string" =>
    LET L == Lines(out)
        n == Len(t.splits)
    IN  /\ Len(L) = 7 + 3 * n + 1
        /\ out[Len(out)] = NL
        /\ StartsWith(L[1], <<"!","T","y","p","e",":">>)
        /\ StartsWith(L[2], <<"D">>)
        /\ L[3] = <<"P">> \o t.payee
        /\ L[4] = <<"M">> \o t.memo
        /\ L[5] = <<"L">> \o t.category
        /\ L[6] = <<"C">> \o t.cleared_status
        /\ StartsWith(L[7], <<"T">>)
        /\ AmountValue(Tail(L[7])) = t.amount
        /\ \A i \in 1..n :
             /\ L[5 + 3 * i] = <<"S">> \o t.splits[i].category
             /\ L[6 + 3 * i] = <<"E">> \o t.splits[i].memo
             /\ StartsWith(L[7 + 3 * i], <<"$">>)
             /\ AmountValue(Tail(L[7 + 3 * i])) = t.splits[i].amount
        /\ L[Len(L)] = <<"^">>

\* Two different splits, a category and a payee, rendered.
C7_Witness ==
  /\ lastOp.op = "to_string"
  /\ t.splits = <<S2, S1>>
  /\ t.category = TxtTestcat
  /\ t.payee # <<>>

(***************************************************************************)
(* C8 (as amended): from_str returns Ok for exactly the six long-form      *)
(* names, each giving its own variant, and the parse error for every other *)
(* string, among them the display tags CCard, Invst, Oth A and Oth L, case *)
(* variants and the empty string.                                          *)
(***************************************************************************)
LongFormNames ==
  { <<NameBank, "Bank">>, <<NameCash, "Cash">>,
    <<NameCreditCard, "CreditCard">>, <<NameInvestment, "Investment">>,
    <<NameAssetAccount, "AssetAccount">>,
    <<NameLiabilityAccount, "LiabilityAccount">> }

DisplayTags == { ExpectedTag(ty) : ty \in AccountType }

C8_ParseExactlyLongNames ==
  parsed # NoParse =>
    /\ parsed.ok <=> (\E p \in LongFormNames : p[1] = input)
    /\ \A p \in LongFormNames : p[1] = input => parsed.val = p[2]
    /\ ~parsed.ok => parsed.val = ParseAccountTypeErr

\* The long form of CreditCard has been parsed.
C8_Witness ==
  /\ input = NameCreditCard
  /\ parsed.ok
  /\ parsed.val = "CreditCard"

\* C8 (as claimed): moreover every display tag, Bank and Cash among them, is
\* answered with the parse error.
C8_AsClaimed ==
  parsed # NoParse =>
    /\ parsed.ok <=> (\E p \in LongFormNames : p[1] = input)
    /\ input \in DisplayTags => ~parsed.ok

(***************************************************************************)
(* C9: for every account type, the tag on the T line of the Account record *)
(* and the tag on the !Type: line of a Transaction bound to that account   *)
(* are the same, namely Bank, Cash, CCard, Invst, Oth A, Oth L.            *)
(***************************************************************************)
C9_SameTagBothRecords ==
  /\ lastOp.op = "account_to_string" =>
       Lines(out)[3] = <<"T">> \o ExpectedTag(acc.account_type)
  /\ lastOp.op = "to_string" =>
       /\ t.account = acc
       /\ Lines(out)[1] = <<"!","T","y","p","e",":">> \o ExpectedTag(acc.account_type)
       /\ SliceFrom(Lines(out)[1], 6) = Tail(Lines(Account_fmt(acc))[3])

\* A Transaction bound to a LiabilityAccount account, rendered.
C9_Witness ==
  /\ lastOp.op = "to_string"
  /\ acc.account_type = "LiabilityAccount"
  /\ acc.name = TxtTestAcc

(***************************************************************************)
(* C10: on a new builder, giving the splits one by one to with_split and   *)
(* giving them as one list to splits() yield the same pending amount and   *)
(* splits; both build, and both render to the same text.                   *)
(***************************************************************************)
C10_ListAndIncrementalAgree ==
  (live /\ writer = "new") =>
    LET fresh == [t EXCEPT !.amount = 0, !.splits = <<>>]
        viaList == Transaction_splits(fresh, added)
    IN  /\ viaList.amount = t.amount
        /\ viaList.splits = t.splits
        /\ Transaction_build(viaList).ok
        /\ Transaction_build(t).ok
        /\ Transaction_fmt(Transaction_build(viaList).val)
             = Transaction_fmt(Transaction_build(t).val)

\* with_split(s1), with_split(s2) on a new builder, then build.
C10_Witness ==
  /\ writer = "new"
  /\ added = <<S1, S2>>
  /\ lastOp.op = "build"
  /\ lastOp.ret = "Ok"

(***************************************************************************)
(* C11: the difference between the pending amount and the sum of the       *)
(* pending splits is left unchanged by with_split and by the date, payee,  *)
(* memo, category and cleared_status setters; on a builder, only amount()  *)
(* makes it nonzero and only splits() or amount() bring it back to zero.   *)
(* So a mismatch survives later with_split calls, and with_split on a      *)
(* matching builder keeps it matching. (Transaction::new starts another    *)
(* builder and is not a step of this one.)                                 *)
(***************************************************************************)
Mismatch(tx) == tx.amount - SplitTotal(tx.splits)

C11_MismatchOnlyByAmount ==
  [][ lastOp'.op # "new" =>
        /\ lastOp'.op \in {"with_split", "date", "payee", "memo", "category",
                           "cleared_status"}
             => Mismatch(t') = Mismatch(t)
        /\ lastOp'.op = "with_split" =>
             t'.splits = Append(t.splits, lastOp'.list[1])
        /\ (Mismatch(t) = 0 /\ Mismatch(t') # 0) => lastOp'.op = "amount"
        /\ (Mismatch(t) # 0 /\ Mismatch(t') = 0) =>
             lastOp'.op \in {"splits", "amount"} ]_vars

\* amount(x) made a mismatch, and two with_split calls later it is still there.
C11_Witness ==
  /\ lastOp.op = "with_split"
  /\ writer = "amount"
  /\ added = <<S1, S2>>
  /\ t.splits = added
  /\ Mismatch(t) # 0

====
